---- MODULE Spec2Model ----
(***************************************************************************)
(* The client state manager of the AI newsreader: the in-memory article    *)
(* list and backend settings, their snapshots in localStorage, the         *)
(* outstanding summarization calls and fetch-service calls, and the        *)
(* handlers that mutate them.  Two variants of the client exist in the     *)
(* repository: src/index.tsx (multi-article, addArticles) and the listing  *)
(* in src/README.md (single-article, addArticle and the pasted-text form). *)
(***************************************************************************)
EXTENDS Integers, Sequences, FiniteSets, Bags, TLC

VARIABLES
    variant,            \* "multi" (src/index.tsx) or "single" (src/README.md)
    articles,           \* let articles: Article[]
    backendSettings,    \* let backendSettings: BackendSettings | null
    localStorage,       \* the items 'newsreader-articles' and 'newsreader-backend-settings'
    orphans,            \* suspended handleSummarize calls whose article left the list
    inflight,           \* sequence of the requests of the outstanding fetch-service calls
    addUrlBtnDisabled,  \* addUrlBtn.disabled
    settingsModalOpen,  \* settingsModal.style.display = 'flex'
    promptTimer,        \* the setTimeout of main() is scheduled and has not fired
    now,                \* Date.now()
    submitted,          \* form submits in the current millisecond: 0, 1, or 2 once
                        \* two submits have shared a millisecond (observation only,
                        \* kept by Spec and SpecIds)
    lastOp              \* the handler that ran last and what it did (observation only)

vars == <<variant, articles, backendSettings, localStorage, orphans, inflight,
          addUrlBtnDisabled, settingsModalOpen, promptTimer, now, submitted, lastOp>>

-----------------------------------------------------------------------------
\* Bounds of the model.

\* Most articles the list holds; handlers that would exceed it are not taken.
MaxArticles == 2
\* Most articles in one fetch-service response.
MaxBatch == 2
\* Largest value of the clock.
MaxClock == 1
\* Most fetch-service calls outstanding at once.
MaxFetch == 1
\* Most generateContent calls outstanding at once.
MaxCalls == 2

-----------------------------------------------------------------------------
\* Values.

\* A value that may be missing is a sequence: <<>> when it is missing (null, an
\* undefined property, a localStorage item that was never set), <<v>> when it is v.
Null == <<>>
Undefined == <<>>
Some(v) == <<v>>

\* Strings are sequences of tokens: " " is whitespace, "h" a scheme and host
\* (as in "http://host"), "/p" a path segment, the others plain text.
Space == " "

\* String.prototype.trim(): strips whitespace from both ends.
RECURSIVE TrimLeft(_)
TrimLeft(s) ==
    IF s # <<>> /\ Head(s) = Space THEN TrimLeft(Tail(s)) ELSE s

RECURSIVE TrimRight(_)
TrimRight(s) ==
    IF s # <<>> /\ s[Len(s)] = Space THEN TrimRight(SubSeq(s, 1, Len(s) - 1)) ELSE s

Trim(s) == TrimRight(TrimLeft(s))

\* new URL(s) succeeds: a scheme and host followed by path segments only.
IsValidURL(s) ==
    /\ s # <<>>
    /\ s[1] = "h"
    /\ \A i \in 2..Len(s) : s[i] = "/p"

\* The properties of an Article that JSON.stringify writes.  The calls field of
\* the model is no property: it counts the suspended handleSummarize calls that
\* hold this object in their `article` constant.
ArticleProps == {"id", "title", "content", "source", "summary", "isSummarizing"}

\* JSON.stringify of one article: a property whose value is undefined is omitted.
StringifyArticle(a) ==
    LET opt == {"summary", "isSummarizing"}
        present == {k \in ArticleProps : k \notin opt \/ a[k] # Undefined}
    IN [k \in present |-> IF k \in opt THEN a[k][1] ELSE a[k]]

\* JSON.stringify(articles)
Stringify(arts) == [i \in 1..Len(arts) |-> StringifyArticle(arts[i])]

\* One element of JSON.parse(savedArticles) without the map that resets the flag.
ParseArticleKeepsFlag(j) ==
    [id |-> j.id,
     title |-> j.title,
     content |-> j.content,
     source |-> j.source,
     summary |-> IF "summary" \in DOMAIN j THEN Some(j.summary) ELSE Undefined,
     isSummarizing |-> IF "isSummarizing" \in DOMAIN j THEN Some(j.isSummarizing)
                       ELSE Undefined,
     calls |-> 0]

\* One element of JSON.parse(savedArticles).map(a => ({...a, isSummarizing: false})):
\* a new object, which no handler holds.
ParseArticle(j) ==
    [id |-> j.id,
     title |-> j.title,
     content |-> j.content,
     source |-> j.source,
     summary |-> IF "summary" \in DOMAIN j THEN Some(j.summary) ELSE Undefined,
     isSummarizing |-> Some(FALSE),
     calls |-> 0]

\* JSON.stringify(backendSettings) and JSON.parse of it: both properties are
\* strings and always present.
StringifySettings(b) == [k \in {"url", "key"} |-> b[k]]

ParseSettings(j) == [url |-> j["url"], key |-> j["key"]]

\* The text of an alert is a sequence of strings.
AlertSummarize == <<"Could not summarize the article. Please check the console for details.">>
AlertNotConfigured == <<"Backend settings are not configured. Please configure them first.">>
AlertNoNew == <<"No new articles found from this source.">>
AlertInvalidUrl == <<"Please enter a valid URL.">>
AlertTextMissing == <<"Please provide both a title and content for the article.">>
AlertSaved == <<"Settings saved successfully.">>
AlertCouldNotFetch(message) == <<"Could not fetch articles: ", message>>

\* The record of the handler that ran last: its outcome, the position in the
\* list of the article it was about (0 if none), the alerts it raised, how often
\* it called saveState, how many outbound calls it issued and how many articles
\* came in with the response it handled.
OpIn(name, outcome, at, alerts, saves, calls, incoming) ==
    [op |-> name, outcome |-> outcome, at |-> at,
     alerts |-> alerts, saves |-> saves, calls |-> calls, incoming |-> incoming]

Op(name, outcome, at, alerts, saves, calls) ==
    OpIn(name, outcome, at, alerts, saves, calls, 0)

\* The sum of f[i] over i in 1..n.
RECURSIVE Sum(_, _)
Sum(f, n) == IF n = 0 THEN 0 ELSE f[n] + Sum(f, n - 1)

\* The suspended handleSummarize calls that hold an article of this list.
CallsOf(arts) == Sum([i \in 1..Len(arts) |-> arts[i].calls], Len(arts))

-----------------------------------------------------------------------------
\* saveState() writing the articles only.
saveStateArticlesOnly(arts, settings, store) ==
    [articles |-> Some(Stringify(arts)), settings |-> store.settings]

\* saveState(): the localStorage items after it has run.
saveState(arts, settings, store) ==
    [articles |-> Some(Stringify(arts)),
     settings |-> IF settings # Null THEN Some(StringifySettings(settings[1]))
                  ELSE store.settings]

\* loadState(): the article list read from the store.
loadArticles(store) ==
    IF store.articles # Null
    THEN LET saved == store.articles[1]
         IN [i \in 1..Len(saved) |-> ParseArticle(saved[i])]
    ELSE <<>>

\* loadState(): the settings read from the store.
loadSettings(store) ==
    IF store.settings # Null THEN Some(ParseSettings(store.settings[1])) ELSE Null

\* main() with the timer set whenever fetchArticlesFromSource would find the
\* settings not configured: `if (!backendSettings?.url || !backendSettings?.key)`.
mainPromptsIfNotConfigured ==
    LET settings == loadSettings(localStorage)
    IN /\ articles' = loadArticles(localStorage)
       /\ backendSettings' = settings
       /\ promptTimer' = (settings = Null \/ settings[1].url = <<>> \/ settings[1].key = <<>>)
       /\ orphans' = 0
       /\ inflight' = <<>>
       /\ addUrlBtnDisabled' = FALSE
       /\ settingsModalOpen' = FALSE
       /\ lastOp' = Op("main", "loaded", 0, <<>>, 0, 0)
       /\ UNCHANGED <<variant, localStorage, now>>

\* main(): the page is opened (or opened again) on the current localStorage.
\* The calls and the timer of an earlier page are gone with it.
main ==
    /\ articles' = loadArticles(localStorage)
    /\ backendSettings' = loadSettings(localStorage)
    /\ promptTimer' = (loadSettings(localStorage) = Null)
    /\ orphans' = 0
    /\ inflight' = <<>>
    /\ addUrlBtnDisabled' = FALSE
    /\ settingsModalOpen' = FALSE
    /\ lastOp' = Op("main", "loaded", 0, <<>>, 0, 0)
    /\ UNCHANGED <<variant, localStorage, now>>

Init ==
    /\ variant \in {"multi", "single"}
    /\ articles = <<>>
    /\ backendSettings = Null
    /\ localStorage = [articles |-> Null, settings |-> Null]
    /\ orphans = 0
    /\ inflight = <<>>
    /\ addUrlBtnDisabled = FALSE
    /\ settingsModalOpen = FALSE
    /\ promptTimer = TRUE
    /\ now = 0
    /\ submitted = 0
    /\ lastOp = Op("main", "loaded", 0, <<>>, 0, 0)

-----------------------------------------------------------------------------
\* Inputs.

\* response.text of a generateContent call that succeeds.
ResponseTexts == {<<Space, "x", Space>>}

\* What the user types into the title and the content fields of the text form.
TitleInputs == {<<Space>>, <<Space, "A">>}
ContentInputs == {<<>>, <<"B", Space>>}

\* What the user types into the source URL field.
SourceInputs == {<<Space>>, <<"x">>, <<Space, "h", Space>>, <<"h", "/p">>}

\* What the user types into the two fields of the settings form.
BackendUrlInputs == {<<Space>>, <<Space, "h">>, <<"x">>}
BackendKeyInputs == {<<>>, <<"k", Space>>}

\* The source property of the articles a fetch-service response carries.
Sources == {<<"h">>, <<"h", "/p">>}

\* One {title, content, source} object of a response.
Item(src) == [title |-> <<"A">>, content |-> <<"B">>, source |-> src]

\* The arrays a response carries: up to n items.
RECURSIVE Batches(_)
Batches(n) ==
    IF n = 0 THEN {<<>>}
    ELSE Batches(n - 1) \cup
         {<<Item(src)>> \o b : src \in Sources, b \in {c \in Batches(n - 1) : Len(c) = n - 1}}

\* An id that no article has.
NoSuchId == <<"none", 0, -1>>

\* The ids of the articles of the list.
IdsOf(arts) == {arts[i].id : i \in 1..Len(arts)}

-----------------------------------------------------------------------------
\* Array.prototype.find: the index of the first article with this id, 0 if none.
Find(arts, articleId) ==
    LET hits == {i \in 1..Len(arts) : arts[i].id = articleId}
    IN IF hits = {} THEN 0 ELSE CHOOSE i \in hits : \A j \in hits : i <= j

\* The early return without its isSummarizing test: `if (!article) return`.
SummarizeReturnsEarlyIfMissing(arts, articleId) ==
    Find(arts, articleId) = 0

\* The early return taken as well for an article whose isSummarizing is set,
\* true or false: `!article || article.isSummarizing !== undefined`.
SummarizeReturnsEarlyIfFlagSet(arts, articleId) ==
    LET i == Find(arts, articleId)
    IN i = 0 \/ arts[i].isSummarizing # Undefined

\* The early return testing the summary in place of the flag:
\* `!article || article.summary`.
SummarizeReturnsEarlyIfSummarized(arts, articleId) ==
    LET i == Find(arts, articleId)
    IN i = 0 \/ arts[i].summary # Undefined

\* handleSummarize: the early return, `!article || article.isSummarizing`.
SummarizeReturnsEarly(arts, articleId) ==
    LET i == Find(arts, articleId)
    IN i = 0 \/ arts[i].isSummarizing = Some(TRUE)

\* handleSummarize(articleId) up to its await: the flag is set, the list is
\* rendered and the generateContent call is issued.  Nothing is saved.
handleSummarize(articleId) ==
    /\ IF SummarizeReturnsEarly(articles, articleId)
       THEN /\ lastOp' = Op("handleSummarize", "returned", Find(articles, articleId),
                            <<>>, 0, 0)
            /\ UNCHANGED articles
       ELSE LET i == Find(articles, articleId)
            IN /\ CallsOf(articles) + orphans < MaxCalls
               /\ articles' = [articles EXCEPT ![i].isSummarizing = Some(TRUE),
                                               ![i].calls = @ + 1]
               /\ lastOp' = Op("handleSummarize", "called", i, <<>>, 0, 1)
    /\ UNCHANGED <<variant, backendSettings, localStorage, orphans, inflight,
                   addUrlBtnDisabled, settingsModalOpen, promptTimer, now>>

\* The flag cleared at the end of the try block instead of in finally.
SummarizedNoFinally(a, result) ==
    [a EXCEPT !.summary = IF result # Undefined THEN Some(Trim(result[1])) ELSE @,
              !.isSummarizing = IF result # Undefined THEN Some(FALSE) ELSE @,
              !.calls = @ - 1]

\* The summary stored without .trim().
SummarizedUntrimmed(a, result) ==
    [a EXCEPT !.summary = IF result # Undefined THEN Some(result[1]) ELSE @,
              !.isSummarizing = Some(FALSE),
              !.calls = @ - 1]

\* The article object after the call made for it has returned: result is
\* Some(response.text), or Undefined when the call (or reading its text) threw.
Summarized(a, result) ==
    [a EXCEPT !.summary = IF result # Undefined THEN Some(Trim(result[1])) ELSE @,
              !.isSummarizing = Some(FALSE),
              !.calls = @ - 1]

\* handleSummarize from its await on with a finally block that clears the flag
\* of every article of the list.
summarizeReturnClearsAll(i, result) ==
    LET done == IF i = 0 THEN articles
                ELSE [articles EXCEPT ![i] = Summarized(@, result)]
        arts == [j \in 1..Len(done) |-> [done[j] EXCEPT !.isSummarizing = Some(FALSE)]]
        alerts == IF result = Undefined THEN <<AlertSummarize>> ELSE <<>>
    IN /\ IF i = 0 THEN orphans > 0 ELSE i \in 1..Len(articles) /\ articles[i].calls > 0
       /\ orphans' = IF i = 0 THEN orphans - 1 ELSE orphans
       /\ articles' = arts
       /\ localStorage' = saveState(arts, backendSettings, localStorage)
       /\ lastOp' = Op("summarizeReturn",
                       IF result = Undefined THEN "failure" ELSE "success",
                       i, alerts, 1, 0)
       /\ UNCHANGED <<variant, backendSettings, inflight, addUrlBtnDisabled,
                      settingsModalOpen, promptTimer, now>>

\* handleSummarize from its await on with the article looked up by its position
\* in the list when the call returns: the result of a call whose article has
\* left the list goes to the article that is first in the list now.
summarizeReturnByPosition(i, result) ==
    LET arts == IF i = 0
                THEN IF articles = <<>> THEN articles
                     ELSE [articles EXCEPT
                             ![1].summary = IF result # Undefined
                                            THEN Some(Trim(result[1])) ELSE @,
                             ![1].isSummarizing = Some(FALSE)]
                ELSE [articles EXCEPT ![i] = Summarized(@, result)]
        alerts == IF result = Undefined THEN <<AlertSummarize>> ELSE <<>>
    IN /\ IF i = 0 THEN orphans > 0 ELSE i \in 1..Len(articles) /\ articles[i].calls > 0
       /\ orphans' = IF i = 0 THEN orphans - 1 ELSE orphans
       /\ articles' = arts
       /\ localStorage' = saveState(arts, backendSettings, localStorage)
       /\ lastOp' = Op("summarizeReturn",
                       IF result = Undefined THEN "failure" ELSE "success",
                       i, alerts, 1, 0)
       /\ UNCHANGED <<variant, backendSettings, inflight, addUrlBtnDisabled,
                      settingsModalOpen, promptTimer, now>>

\* handleSummarize from its await on (try, catch, finally), for the call that
\* holds the i-th article of the list, or with i = 0 for a call whose article
\* has left the list: that object is changed all the same, and the list saved.
summarizeReturn(i, result) ==
    LET arts == IF i = 0 THEN articles
                ELSE [articles EXCEPT ![i] = Summarized(@, result)]
        alerts == IF result = Undefined THEN <<AlertSummarize>> ELSE <<>>
    IN /\ IF i = 0 THEN orphans > 0 ELSE i \in 1..Len(articles) /\ articles[i].calls > 0
       /\ orphans' = IF i = 0 THEN orphans - 1 ELSE orphans
       /\ articles' = arts
       /\ localStorage' = saveState(arts, backendSettings, localStorage)
       /\ lastOp' = Op("summarizeReturn",
                       IF result = Undefined THEN "failure" ELSE "success",
                       i, alerts, 1, 0)
       /\ UNCHANGED <<variant, backendSettings, inflight, addUrlBtnDisabled,
                      settingsModalOpen, promptTimer, now>>

\* removeArticle returning before saveState() when no article has the id.
removeArticleReturnsEarly(articleId) ==
    LET arts == SelectSeq(articles, LAMBDA a : a.id # articleId)
        found == articleId \in IdsOf(articles)
    IN /\ articles' = arts
       /\ orphans' = orphans + CallsOf(articles) - CallsOf(arts)
       /\ localStorage' = IF found THEN saveState(arts, backendSettings, localStorage)
                          ELSE localStorage
       /\ lastOp' = Op("removeArticle", IF found THEN "removed" ELSE "absent",
                       0, <<>>, IF found THEN 1 ELSE 0, 0)
       /\ UNCHANGED <<variant, backendSettings, inflight, addUrlBtnDisabled,
                      settingsModalOpen, promptTimer, now>>

\* removeArticle(articleId)
removeArticle(articleId) ==
    LET arts == SelectSeq(articles, LAMBDA a : a.id # articleId)
    IN /\ articles' = arts
       /\ orphans' = orphans + CallsOf(articles) - CallsOf(arts)
       /\ localStorage' = saveState(arts, backendSettings, localStorage)
       /\ lastOp' = Op("removeArticle",
                       IF articleId \in IdsOf(articles) THEN "removed" ELSE "absent",
                       0, <<>>, 1, 0)
       /\ UNCHANGED <<variant, backendSettings, inflight, addUrlBtnDisabled,
                      settingsModalOpen, promptTimer, now>>

\* saveSettings keeping the saved url or key when its field is left empty.
saveSettingsMerges(urlInput, keyInput) ==
    LET old == IF backendSettings = Null THEN [url |-> <<>>, key |-> <<>>]
               ELSE backendSettings[1]
        settings == Some([url |-> IF Trim(urlInput) = <<>> THEN old.url ELSE Trim(urlInput),
                          key |-> IF Trim(keyInput) = <<>> THEN old.key ELSE Trim(keyInput)])
    IN /\ backendSettings' = settings
       /\ localStorage' = saveState(articles, settings, localStorage)
       /\ settingsModalOpen' = FALSE
       /\ lastOp' = Op("saveSettings", "saved", 0, <<AlertSaved>>, 1, 0)
       /\ UNCHANGED <<variant, articles, orphans, inflight, addUrlBtnDisabled,
                      promptTimer, now>>

\* saveSettings(e): the submit listener of the settings form.
saveSettings(urlInput, keyInput) ==
    LET settings == Some([url |-> Trim(urlInput), key |-> Trim(keyInput)])
    IN /\ backendSettings' = settings
       /\ localStorage' = saveState(articles, settings, localStorage)
       /\ settingsModalOpen' = FALSE
       /\ lastOp' = Op("saveSettings", "saved", 0, <<AlertSaved>>, 1, 0)
       /\ UNCHANGED <<variant, articles, orphans, inflight, addUrlBtnDisabled,
                      promptTimer, now>>

-----------------------------------------------------------------------------
\* A new Article object.
Article(id, title, content, source) ==
    [id |-> id, title |-> title, content |-> content, source |-> source,
     summary |-> Undefined, isSummarizing |-> Undefined, calls |-> 0]

\* addArticles without its filter: every incoming article is kept.
uniqueNewArticlesUnfiltered(arts, newArticles) ==
    newArticles

\* The filter of addArticles dropping as well an incoming article whose source
\* an earlier article of the batch has.
uniqueNewArticlesOncePerSource(arts, newArticles) ==
    LET firsts == {i \in 1..Len(newArticles) :
                      /\ \A j \in 1..Len(arts) : arts[j].source # newArticles[i].source
                      /\ \A j \in 1..(i - 1) : newArticles[j].source # newArticles[i].source}
        Pick(n) == CHOOSE i \in firsts : Cardinality({j \in firsts : j < i}) = n - 1
    IN [n \in 1..Cardinality(firsts) |-> newArticles[Pick(n)]]

\* addArticles: the incoming articles whose source no article of the list has.
uniqueNewArticles(arts, newArticles) ==
    SelectSeq(newArticles, LAMBDA n : \A i \in 1..Len(arts) : arts[i].source # n.source)

\* addArticles with saveState() called before articles.unshift(...).
addArticlesSavesFirst(arts, settings, store, newArticles) ==
    LET unique == uniqueNewArticles(arts, newArticles)
    IN IF Len(unique) = 0
       THEN [articles |-> arts, store |-> store, alerts |-> <<AlertNoNew>>, saves |-> 0]
       ELSE [articles |-> unique \o arts,
             store |-> saveState(arts, settings, store),
             alerts |-> <<>>, saves |-> 1]

\* addArticles(newArticles): the list and the store after it, its alerts and
\* the number of times it called saveState.
addArticles(arts, settings, store, newArticles) ==
    LET unique == uniqueNewArticles(arts, newArticles)
    IN IF Len(unique) = 0
       THEN [articles |-> arts, store |-> store, alerts |-> <<AlertNoNew>>, saves |-> 0]
       ELSE [articles |-> unique \o arts,
             store |-> saveState(unique \o arts, settings, store),
             alerts |-> <<>>, saves |-> 1]

\* addArticle that puts the article in front of a list rebuilt from id, title,
\* content and source alone.
addArticleRebuildsList(arts, settings, store, article) ==
    LET rebuilt == [i \in 1..Len(arts) |->
                       [arts[i] EXCEPT !.summary = Undefined, !.isSummarizing = Undefined]]
    IN [articles |-> <<article>> \o rebuilt,
        store |-> saveState(<<article>> \o rebuilt, settings, store),
        alerts |-> <<>>, saves |-> 1]

\* addArticle with articles.push(article) in place of articles.unshift(article).
addArticlePush(arts, settings, store, article) ==
    [articles |-> arts \o <<article>>,
     store |-> saveState(arts \o <<article>>, settings, store),
     alerts |-> <<>>, saves |-> 1]

\* addArticle(article), of the single-article variant.
addArticle(arts, settings, store, article) ==
    [articles |-> <<article>> \o arts,
     store |-> saveState(<<article>> \o arts, settings, store),
     alerts |-> <<>>, saves |-> 1]

\* The submit listener of the text form (single-article variant).
addTextFormSubmit(titleInput, contentInput) ==
    LET title == Trim(titleInput)
        content == Trim(contentInput)
        done == addArticle(articles, backendSettings, localStorage,
                           Article(<<"text", now, -1>>, title, content, <<"Pasted Text">>))
    IN /\ variant = "single"
       /\ IF title # <<>> /\ content # <<>>
          THEN /\ Len(articles) < MaxArticles
               /\ articles' = done.articles
               /\ localStorage' = done.store
               /\ lastOp' = Op("addTextForm", "added", 1, done.alerts, done.saves, 0)
          ELSE /\ lastOp' = Op("addTextForm", "rejected", 0, <<AlertTextMissing>>, 0, 0)
               /\ UNCHANGED <<articles, localStorage>>
       /\ UNCHANGED <<variant, backendSettings, orphans, inflight, addUrlBtnDisabled,
                      settingsModalOpen, promptTimer, now>>

\* fetchArticlesFromSource / fetchArticleFromBackend: the settings are missing.
NotConfiguredOnlyIfNull(settings) ==
    settings = Null

\* !backendSettings?.url || !backendSettings?.key
NotConfigured(settings) ==
    settings = Null \/ settings[1].url = <<>> \/ settings[1].key = <<>>

\* The path that the request's address gets: '/fetch-source' in src/index.tsx,
\* '/fetch-url' in the single-article variant.
PathSuffix == IF variant = "multi" THEN "/fetch-source" ELSE "/fetch-url"

\* The request with the path appended to the configured URL.
RequestKeepsPath(settings, url) ==
    [method |-> "GET",
     address |-> settings.url \o <<PathSuffix>>,
     url |-> url,
     authorization |-> <<"Bearer ">> \o settings.key]

\* The request that fetch() sends, for settings whose url new URL() accepts:
\* fetchUrl.pathname = PathSuffix replaces whatever path the configured URL
\* has, searchParams.set('url', url) adds the query parameter, and fetch()
\* without a method sends a GET.
Request(settings, url) ==
    [method |-> "GET",
     address |-> <<Head(settings.url), PathSuffix>>,
     url |-> url,
     authorization |-> <<"Bearer ">> \o settings.key]

\* fetchArticlesFromSource(url) up to its await (fetchArticleFromBackend in the
\* single-article variant).
fetchArticlesFromSource(url) ==
    IF NotConfigured(backendSettings)
    THEN /\ settingsModalOpen' = TRUE
         /\ lastOp' = Op("fetchArticlesFromSource", "notConfigured", 0,
                         <<AlertNotConfigured>>, 0, 0)
         /\ UNCHANGED <<inflight, addUrlBtnDisabled>>
    ELSE IF ~IsValidURL(backendSettings[1].url)
    THEN \* new URL(backendSettings.url) throws inside the try: catch, finally
         /\ addUrlBtnDisabled' = FALSE
         /\ lastOp' = Op("fetchArticlesFromSource", "threw", 0,
                         <<AlertCouldNotFetch("Invalid URL")>>, 0, 0)
         /\ UNCHANGED <<inflight, settingsModalOpen>>
    ELSE /\ Len(inflight) < MaxFetch
         /\ inflight' = Append(inflight, Request(backendSettings[1], url))
         /\ addUrlBtnDisabled' = TRUE
         /\ lastOp' = Op("fetchArticlesFromSource", "called", 0, <<>>, 0, 1)
         /\ UNCHANGED settingsModalOpen

\* The submit listener of the URL form without its new URL(url) test.
addUrlFormSubmitUnvalidated(sourceInput) ==
    LET url == Trim(sourceInput)
    IN /\ IF url = <<>>
          THEN /\ lastOp' = Op("addUrlForm", "empty", 0, <<>>, 0, 0)
               /\ UNCHANGED <<inflight, addUrlBtnDisabled, settingsModalOpen>>
          ELSE fetchArticlesFromSource(url)
       /\ UNCHANGED <<variant, articles, backendSettings, localStorage, orphans,
                      promptTimer, now>>

\* The submit listener of the URL form.
addUrlFormSubmit(sourceInput) ==
    LET url == Trim(sourceInput)
    IN /\ IF url = <<>>
          THEN /\ lastOp' = Op("addUrlForm", "empty", 0, <<>>, 0, 0)
               /\ UNCHANGED <<inflight, addUrlBtnDisabled, settingsModalOpen>>
          ELSE IF ~IsValidURL(url)
          THEN /\ lastOp' = Op("addUrlForm", "invalid", 0, <<AlertInvalidUrl>>, 0, 0)
               /\ UNCHANGED <<inflight, addUrlBtnDisabled, settingsModalOpen>>
          ELSE fetchArticlesFromSource(url)
       /\ UNCHANGED <<variant, articles, backendSettings, localStorage, orphans,
                      promptTimer, now>>

-----------------------------------------------------------------------------
\* What a fetch-service call can come back with: the request failed (net is
\* "rejected"), or a response with its ok flag and a body that is not JSON
\* ("unparsable"), a JSON object with an error property ("errorObject"), a JSON
\* object without one ("object", carrying data[1] as {title, content}) or a
\* JSON array ("array", carrying data).
Response(net, ok, body, data) == [net |-> net, ok |-> ok, body |-> body, data |-> data]

Failures ==
    {Response("rejected", FALSE, "unparsable", <<>>)}
    \cup {Response("resolved", FALSE, b, <<>>) : b \in {"unparsable", "errorObject", "object"}}
    \cup {Response("resolved", TRUE, "unparsable", <<>>)}

Responses ==
    Failures
    \cup {Response("resolved", TRUE, "array", d) : d \in Batches(MaxBatch)}
    \cup {Response("resolved", TRUE, "object", <<Item(<<>>)>>)}

\* The message of the error thrown in the try block for this response, <<>> if
\* none is thrown there.
FetchError(resp) ==
    IF resp.net = "rejected" THEN <<"Failed to fetch">>
    ELSE IF resp.body = "unparsable" THEN <<"SyntaxError">>
    ELSE IF ~resp.ok
    THEN IF resp.body = "errorObject" THEN <<"error of the server">>
         ELSE <<"Failed to fetch with status">>
    ELSE IF variant = "multi" /\ resp.body # "array" THEN <<"data.map is not a function">>
    ELSE <<>>

\* The articles of a response with ids `art-${Date.now()}`, without the index.
NewArticlesNoIndex(resp, url, t) ==
    IF variant = "multi"
    THEN [i \in 1..Len(resp.data) |->
            Article(<<"art", t, 0>>, resp.data[i].title,
                    resp.data[i].content, resp.data[i].source)]
    ELSE <<Article(<<"url", t, -1>>, resp.data[1].title, resp.data[1].content, url)>>

\* data.map((art, index) => ({...art, id: `art-${Date.now()}-${index}`})) of
\* src/index.tsx; in the single-article variant the one article
\* {id: `url-${Date.now()}`, title, content, source: url}.
NewArticles(resp, url, t) ==
    IF variant = "multi"
    THEN [i \in 1..Len(resp.data) |->
            Article(<<"art", t, i - 1>>, resp.data[i].title,
                    resp.data[i].content, resp.data[i].source)]
    ELSE <<Article(<<"url", t, -1>>, resp.data[1].title, resp.data[1].content, url)>>

\* fetchArticlesFromSource from its await on with the button re-enabled at the
\* end of the try block instead of in a finally block.
fetchReturnNoFinally(k, resp) ==
    LET url == inflight[k].url
        err == FetchError(resp)
        new == NewArticles(resp, url, now)
        done == IF variant = "multi"
                THEN addArticles(articles, backendSettings, localStorage, new)
                ELSE addArticle(articles, backendSettings, localStorage, new[1])
    IN /\ k \in 1..Len(inflight)
       /\ variant = "single" => resp.body # "array"
       /\ inflight' = [i \in 1..(Len(inflight) - 1) |->
                          IF i < k THEN inflight[i] ELSE inflight[i + 1]]
       /\ IF err # <<>>
          THEN /\ lastOp' = Op("fetchReturn", "failed", 0,
                               <<AlertCouldNotFetch(err[1])>>, 0, 0)
               /\ UNCHANGED <<articles, localStorage, addUrlBtnDisabled>>
          ELSE /\ Len(done.articles) <= MaxArticles
               /\ articles' = done.articles
               /\ localStorage' = done.store
               /\ addUrlBtnDisabled' = FALSE
               /\ lastOp' = OpIn("fetchReturn",
                                 IF done.saves = 0 THEN "nothingNew" ELSE "added",
                                 0, done.alerts, done.saves, 0, Len(resp.data))
       /\ UNCHANGED <<variant, backendSettings, orphans, settingsModalOpen,
                      promptTimer, now>>

\* fetchArticlesFromSource from its await on: the rest of the try block, catch
\* and finally, for the k-th outstanding call.
fetchReturn(k, resp) ==
    LET url == inflight[k].url
        err == FetchError(resp)
        new == NewArticles(resp, url, now)
        done == IF variant = "multi"
                THEN addArticles(articles, backendSettings, localStorage, new)
                ELSE addArticle(articles, backendSettings, localStorage, new[1])
    IN /\ k \in 1..Len(inflight)
       /\ variant = "single" => resp.body # "array"
       /\ inflight' = [i \in 1..(Len(inflight) - 1) |->
                          IF i < k THEN inflight[i] ELSE inflight[i + 1]]
       /\ addUrlBtnDisabled' = FALSE
       /\ IF err # <<>>
          THEN /\ lastOp' = Op("fetchReturn", "failed", 0,
                               <<AlertCouldNotFetch(err[1])>>, 0, 0)
               /\ UNCHANGED <<articles, localStorage>>
          ELSE /\ Len(done.articles) <= MaxArticles
               /\ articles' = done.articles
               /\ localStorage' = done.store
               /\ lastOp' = OpIn("fetchReturn",
                                 IF done.saves = 0 THEN "nothingNew" ELSE "added",
                                 0, done.alerts, done.saves, 0, Len(resp.data))
       /\ UNCHANGED <<variant, backendSettings, orphans, settingsModalOpen,
                      promptTimer, now>>

\* The callback of the setTimeout in main().
promptTimerFires ==
    /\ promptTimer
    /\ promptTimer' = FALSE
    /\ settingsModalOpen' = TRUE
    /\ lastOp' = Op("promptTimer", "opened", 0, <<>>, 0, 0)
    /\ UNCHANGED <<variant, articles, backendSettings, localStorage, orphans, inflight,
                   addUrlBtnDisabled, now>>

\* openSettingsModal(), from the settings button.
openSettingsModal ==
    /\ ~settingsModalOpen
    /\ settingsModalOpen' = TRUE
    /\ lastOp' = Op("openSettingsModal", "opened", 0, <<>>, 0, 0)
    /\ UNCHANGED <<variant, articles, backendSettings, localStorage, orphans, inflight,
                   addUrlBtnDisabled, promptTimer, now>>

\* closeSettingsModal(), from the close button or a click on the overlay.
closeSettingsModal ==
    /\ settingsModalOpen
    /\ settingsModalOpen' = FALSE
    /\ lastOp' = Op("closeSettingsModal", "closed", 0, <<>>, 0, 0)
    /\ UNCHANGED <<variant, articles, backendSettings, localStorage, orphans, inflight,
                   addUrlBtnDisabled, promptTimer, now>>

\* Time passes: Date.now() grows.
Tick ==
    /\ now < MaxClock
    /\ now' = now + 1
    /\ UNCHANGED <<variant, articles, backendSettings, localStorage, orphans, inflight,
                   addUrlBtnDisabled, settingsModalOpen, promptTimer, lastOp>>

-----------------------------------------------------------------------------
\* The outcomes of a generateContent call.
Results == {Undefined} \cup {Some(t) : t \in ResponseTexts}

\* A form was submitted: the second submit of a millisecond is remembered.
Submit == submitted' = IF submitted = 0 THEN 1 ELSE 2

\* A new millisecond starts with no submit in it.
NoSubmitYet == submitted' = IF submitted = 1 THEN 0 ELSE submitted

\* Every handler of the two variants of the client.
Next ==
    \/ main /\ UNCHANGED submitted
    \/ (\E id \in IdsOf(articles) \cup {NoSuchId} : handleSummarize(id)) /\ UNCHANGED submitted
    \/ (\E i \in 0..Len(articles), result \in Results : summarizeReturn(i, result)) /\ UNCHANGED submitted
    \/ (\E id \in IdsOf(articles) \cup {NoSuchId} : removeArticle(id)) /\ UNCHANGED submitted
    \/ (\E u \in BackendUrlInputs, k \in BackendKeyInputs : saveSettings(u, k)) /\ UNCHANGED submitted
    \/ (\E t \in TitleInputs, c \in ContentInputs : addTextFormSubmit(t, c)) /\ Submit
    \/ (\E u \in SourceInputs : addUrlFormSubmit(u)) /\ Submit
    \/ (\E k \in 1..Len(inflight), resp \in Responses : fetchReturn(k, resp)) /\ UNCHANGED submitted
    \/ promptTimerFires /\ UNCHANGED submitted
    \/ openSettingsModal /\ UNCHANGED submitted
    \/ closeSettingsModal /\ UNCHANGED submitted
    \/ Tick /\ NoSubmitYet

Spec == Init /\ [][Next]_vars

\* The state space of Spec is the product of what the article handlers and what
\* the settings and ingestion handlers reach.  The specifications below take the
\* handlers a group of claims is about, with the same definitions.

InitSingle == Init /\ variant = "single"

\* The summarization round trip on articles added by the text form.
NextSummarize ==
    \/ main /\ UNCHANGED submitted
    \/ (\E id \in IdsOf(articles) \cup {NoSuchId} : handleSummarize(id)) /\ UNCHANGED submitted
    \/ (\E i \in 0..Len(articles), result \in Results : summarizeReturn(i, result))
          /\ UNCHANGED submitted
    \/ (\E id \in IdsOf(articles) \cup {NoSuchId} : removeArticle(id)) /\ UNCHANGED submitted
    \/ (\E t \in TitleInputs, c \in ContentInputs : addTextFormSubmit(t, c)) /\ UNCHANGED submitted
    \/ Tick /\ UNCHANGED submitted

SpecSummarize == InitSingle /\ [][NextSummarize]_vars

\* Summarizing and summarizing again, on one page that is not reloaded and
\* from whose list nothing is removed.
NextRetry ==
    \/ (\E id \in IdsOf(articles) \cup {NoSuchId} : handleSummarize(id)) /\ UNCHANGED submitted
    \/ (\E i \in 0..Len(articles), result \in Results : summarizeReturn(i, result))
          /\ UNCHANGED submitted
    \/ (\E t \in TitleInputs, c \in ContentInputs : addTextFormSubmit(t, c)) /\ UNCHANGED submitted
    \/ Tick /\ UNCHANGED submitted

SpecRetry == InitSingle /\ [][NextRetry]_vars

\* Saving the settings, with every value of the two fields, beside pasted
\* articles and their summarization.
NextSettings ==
    \/ main /\ UNCHANGED submitted
    \/ (\E id \in IdsOf(articles) \cup {NoSuchId} : handleSummarize(id)) /\ UNCHANGED submitted
    \/ (\E i \in 0..Len(articles), result \in Results : summarizeReturn(i, result))
          /\ UNCHANGED submitted
    \/ (\E t \in TitleInputs, c \in ContentInputs : addTextFormSubmit(t, c)) /\ UNCHANGED submitted
    \/ (\E u \in BackendUrlInputs, k \in BackendKeyInputs : saveSettings(u, k))
          /\ UNCHANGED submitted
    \/ Tick /\ UNCHANGED submitted

SpecSettings == InitSingle /\ [][NextSettings]_vars

\* Every handler that changes the list or calls saveState, in both variants,
\* with one value for the settings.
NextStore ==
    \/ main /\ UNCHANGED submitted
    \/ (\E id \in IdsOf(articles) \cup {NoSuchId} : handleSummarize(id)) /\ UNCHANGED submitted
    \/ (\E i \in 0..Len(articles), result \in Results : summarizeReturn(i, result))
          /\ UNCHANGED submitted
    \/ (\E id \in IdsOf(articles) \cup {NoSuchId} : removeArticle(id)) /\ UNCHANGED submitted
    \/ (\E t \in TitleInputs, c \in ContentInputs : addTextFormSubmit(t, c)) /\ UNCHANGED submitted
    \/ saveSettings(<<Space, "h">>, <<"k", Space>>) /\ UNCHANGED submitted
    \/ addUrlFormSubmit(<<Space, "h", Space>>) /\ UNCHANGED submitted
    \/ (\E k \in 1..Len(inflight), resp \in Responses : fetchReturn(k, resp)) /\ UNCHANGED submitted
    \/ Tick /\ UNCHANGED submitted

SpecStore == Init /\ [][NextStore]_vars

\* Adding and removing in both variants, without summarization.
NextAdd ==
    \/ main /\ UNCHANGED submitted
    \/ (\E id \in IdsOf(articles) \cup {NoSuchId} : removeArticle(id)) /\ UNCHANGED submitted
    \/ (\E t \in TitleInputs, c \in ContentInputs : addTextFormSubmit(t, c)) /\ UNCHANGED submitted
    \/ saveSettings(<<Space, "h">>, <<"k", Space>>) /\ UNCHANGED submitted
    \/ (\E u \in SourceInputs : addUrlFormSubmit(u)) /\ UNCHANGED submitted
    \/ (\E k \in 1..Len(inflight), resp \in Responses : fetchReturn(k, resp)) /\ UNCHANGED submitted
    \/ Tick /\ UNCHANGED submitted

SpecAdd == Init /\ [][NextAdd]_vars

\* Adding and removing in both variants, with the submits of each millisecond
\* counted.
NextIds ==
    \/ main /\ UNCHANGED submitted
    \/ (\E id \in IdsOf(articles) \cup {NoSuchId} : removeArticle(id)) /\ UNCHANGED submitted
    \/ (\E t \in TitleInputs, c \in ContentInputs : addTextFormSubmit(t, c)) /\ Submit
    \/ saveSettings(<<Space, "h">>, <<"k", Space>>) /\ UNCHANGED submitted
    \/ (\E u \in SourceInputs : addUrlFormSubmit(u)) /\ Submit
    \/ (\E k \in 1..Len(inflight), resp \in Responses : fetchReturn(k, resp))
          /\ UNCHANGED submitted
    \/ Tick /\ NoSubmitYet

SpecIds == Init /\ [][NextIds]_vars

\* URL ingestion in both variants with every value of the settings.
NextIngest ==
    \/ main /\ UNCHANGED submitted
    \/ (\E u \in BackendUrlInputs, k \in BackendKeyInputs : saveSettings(u, k))
          /\ UNCHANGED submitted
    \/ (\E u \in SourceInputs : addUrlFormSubmit(u)) /\ UNCHANGED submitted
    \/ (\E k \in 1..Len(inflight), resp \in Responses : fetchReturn(k, resp)) /\ UNCHANGED submitted
    \/ promptTimerFires /\ UNCHANGED submitted
    \/ closeSettingsModal /\ UNCHANGED submitted
    \/ Tick /\ UNCHANGED submitted

SpecIngest == Init /\ [][NextIngest]_vars

\* Startup and the settings modal, with fetch-service calls that fail.  The
\* callback of the timer that main() sets runs once the delay has passed.
NextStartup ==
    \/ main /\ UNCHANGED submitted
    \/ (\E u \in BackendUrlInputs, k \in BackendKeyInputs : saveSettings(u, k))
          /\ UNCHANGED submitted
    \/ (\E u \in SourceInputs : addUrlFormSubmit(u)) /\ UNCHANGED submitted
    \/ (\E k \in 1..Len(inflight), resp \in Failures : fetchReturn(k, resp)) /\ UNCHANGED submitted
    \/ promptTimerFires /\ UNCHANGED submitted
    \/ openSettingsModal /\ UNCHANGED submitted
    \/ closeSettingsModal /\ UNCHANGED submitted

SpecStartup ==
    /\ Init
    /\ [][NextStartup]_vars
    /\ WF_vars(promptTimerFires /\ UNCHANGED submitted)

\* The backend URLs of the settings form, and one that has a path.
BackendUrlsWithPath == BackendUrlInputs \cup {<<"h", "/p">>}

\* Sending the request: the settings are saved and loaded, URLs are submitted
\* and the calls come back failed.
NextRequest ==
    \/ main /\ UNCHANGED submitted
    \/ (\E u \in BackendUrlsWithPath, k \in BackendKeyInputs : saveSettings(u, k))
          /\ UNCHANGED submitted
    \/ (\E u \in SourceInputs : addUrlFormSubmit(u)) /\ UNCHANGED submitted
    \/ (\E k \in 1..Len(inflight), resp \in Failures : fetchReturn(k, resp))
          /\ UNCHANGED submitted
    \/ closeSettingsModal /\ UNCHANGED submitted

SpecRequest == Init /\ [][NextRequest]_vars

-----------------------------------------------------------------------------
\* The properties of the specification that are checked.

\* The snapshot under 'newsreader-articles': <<>> if the item was never set.
Persisted == IF localStorage.articles = Null THEN <<>> ELSE localStorage.articles[1]

\* s is t without the whitespace at its two ends.
IsTrimOf(s, t) ==
    /\ s # <<>> => s[1] # Space /\ s[Len(s)] # Space
    /\ \E i \in 0..Len(t) :
          /\ i + Len(s) <= Len(t)
          /\ SubSeq(t, i + 1, i + Len(s)) = s
          /\ \A k \in (1..i) \cup ((i + Len(s) + 1)..Len(t)) : t[k] = Space

\* C4: a handleSummarize(id) for an article whose call is still outstanding
\* issues no call and changes neither the list, the store nor the suspended
\* calls; no article ever has more than one call outstanding.
C4_OneOutstandingCall ==
    /\ [](\A i \in 1..Len(articles) : articles[i].calls <= 1)
    /\ [][\A id \in IdsOf(articles) :
            (handleSummarize(id) /\ articles[Find(articles, id)].calls > 0)
                => /\ UNCHANGED <<articles, localStorage, orphans>>
                   /\ lastOp'.calls = 0]_vars

\* C4 happens: a handleSummarize returned early on an article whose call is outstanding.
C4_Witness ==
    /\ lastOp.op = "handleSummarize"
    /\ lastOp.outcome = "returned"
    /\ lastOp.at # 0
    /\ articles[lastOp.at].calls = 1

\* C5: when the call for the i-th article fails, the handler raises the one
\* failure alert, leaves that article's summary as it was (unset if it was
\* unset) and its isSummarizing false, and changes no other article, nor which
\* articles the list holds, nor their order.
C5_FailureLeavesSummaryUnset ==
    [][\A i \in 0..Len(articles) :
          summarizeReturn(i, Undefined)
              => /\ lastOp'.alerts = <<AlertSummarize>>
                 /\ Len(articles') = Len(articles)
                 /\ \A j \in 1..Len(articles) :
                       IF j = i
                       THEN /\ articles'[j].isSummarizing = Some(FALSE)
                            /\ articles'[j].summary = articles[j].summary
                            /\ \A f \in {"id", "title", "content", "source"} :
                                  articles'[j][f] = articles[j][f]
                       ELSE articles'[j] = articles[j]]_vars

\* C5 happens: the call of an article without a summary failed, beside another article.
C5_Witness ==
    /\ lastOp.op = "summarizeReturn"
    /\ lastOp.outcome = "failure"
    /\ lastOp.at # 0
    /\ Len(articles) = 2
    /\ articles[lastOp.at].summary = Undefined
    /\ articles[lastOp.at].isSummarizing = Some(FALSE)

\* C6: the step in which a generateContent call returns, with a text or with an
\* error, leaves the article's isSummarizing false and writes the list, with the
\* flag cleared, to the store; when it returned a text the summary is that text
\* trimmed.
C6_ReturnClearsFlagAndSaves ==
    [][\A i \in 0..Len(articles), result \in Results :
          summarizeReturn(i, result)
              => /\ lastOp'.saves = 1
                 /\ localStorage'.articles = Some(Stringify(articles'))
                 /\ i # 0 =>
                       /\ articles'[i].isSummarizing = Some(FALSE)
                       /\ localStorage'.articles[1][i].isSummarizing = FALSE
                       /\ result # Undefined =>
                             /\ articles'[i].summary # Undefined
                             /\ IsTrimOf(articles'[i].summary[1], result[1])
                             /\ localStorage'.articles[1][i].summary
                                   = articles'[i].summary[1]]_vars

\* C6 happens: a call returned a text and the summary is stored and saved.
C6_Witness ==
    /\ lastOp.op = "summarizeReturn"
    /\ lastOp.outcome = "success"
    /\ lastOp.at # 0
    /\ articles[lastOp.at].summary = Some(<<"x">>)
    /\ Persisted[lastOp.at].summary = <<"x">>

\* An add or a remove ran last: removeArticle, addArticle (from the text form
\* or a fetched article) or addArticles.
AddOrRemoveRan ==
    \/ lastOp.op = "removeArticle"
    \/ lastOp.op = "addTextForm" /\ lastOp.outcome = "added"
    \/ lastOp.op = "fetchReturn" /\ lastOp.outcome \in {"added", "nothingNew"}

\* C1 as claimed: after each add and each remove the value stored under
\* 'newsreader-articles' is the serialization of the list.
C1_AsClaimed ==
    AddOrRemoveRan => localStorage.articles = Some(Stringify(articles))

\* C1: after each removeArticle, each addArticle and each addArticles that adds
\* an article, saveState has run once and the value stored under
\* 'newsreader-articles' is the serialization of the list; an addArticles that
\* finds nothing new does not call saveState.
C1_SnapshotAfterAddAndRemove ==
    /\ (AddOrRemoveRan /\ lastOp.outcome # "nothingNew")
          => /\ lastOp.saves = 1
             /\ localStorage.articles = Some(Stringify(articles))
    /\ (AddOrRemoveRan /\ lastOp.outcome = "nothingNew") => lastOp.saves = 0

\* C1 happens: an article was added in front of one that was loaded from the store.
C1_Witness ==
    /\ AddOrRemoveRan
    /\ lastOp.outcome = "added"
    /\ Len(articles) = 2
    /\ articles[2].isSummarizing = Some(FALSE)
    /\ Persisted[2].isSummarizing = FALSE

\* C7: addArticles adds no incoming article whose source an article of the list
\* has, and keeps the list behind what it adds; when every incoming article has
\* such a source the list and the store stay as they are, saveState is not
\* called, and the alert that nothing new was found is raised.
C7_DuplicateSourcesNotAdded ==
    [][\A k \in 1..Len(inflight), resp \in Responses :
          (variant = "multi" /\ FetchError(resp) = <<>> /\ fetchReturn(k, resp))
              => LET olds == {articles[i].source : i \in 1..Len(articles)}
                     n == Len(articles') - Len(articles)
                 IN /\ n >= 0
                    /\ SubSeq(articles', n + 1, Len(articles')) = articles
                    /\ \A i \in 1..n : articles'[i].source \notin olds
                    /\ (\A j \in 1..Len(resp.data) : resp.data[j].source \in olds)
                          => /\ articles' = articles
                             /\ localStorage' = localStorage
                             /\ lastOp'.saves = 0
                             /\ lastOp'.alerts = <<AlertNoNew>>]_vars

\* C7 happens: two articles came in, both with the source of an article of the
\* list, and nothing was added.
C7_Witness ==
    /\ variant = "multi"
    /\ lastOp.op = "fetchReturn"
    /\ lastOp.outcome = "nothingNew"
    /\ lastOp.incoming = 2
    /\ Len(articles) >= 1

\* The i-th article of the snapshot has isSummarizing true.
PersistedTrue(i) ==
    "isSummarizing" \in DOMAIN Persisted[i] /\ Persisted[i].isSummarizing = TRUE

\* The snapshot and the list hold the same articles in the same order with the
\* same id, title, content, source and summary.
AgreeButFlag ==
    /\ Len(Persisted) = Len(articles)
    /\ \A i \in 1..Len(articles) :
          /\ \A f \in {"id", "title", "content", "source"} : Persisted[i][f] = articles[i][f]
          /\ IF articles[i].summary = Undefined THEN "summary" \notin DOMAIN Persisted[i]
             ELSE /\ "summary" \in DOMAIN Persisted[i]
                  /\ Persisted[i].summary = articles[i].summary[1]

\* The snapshot and the list also agree on whether isSummarizing is true.
AgreeOnFlag ==
    \A i \in 1..Len(articles) :
        PersistedTrue(i) <=> articles[i].isSummarizing = Some(TRUE)

\* The settings in the store are the settings in memory.
SettingsAgree ==
    localStorage.settings =
        IF backendSettings = Null THEN Null ELSE Some(StringifySettings(backendSettings[1]))

\* One of the operations of the state manager ran last: an add, a remove, the
\* start or the completion of a summarization, a settings save, a rejected or a
\* failed fetch.
StoreOpRan ==
    \/ lastOp.op \in {"removeArticle", "summarizeReturn", "saveSettings"}
    \/ lastOp.op = "addTextForm" /\ lastOp.outcome = "added"
    \/ lastOp.op = "handleSummarize" /\ lastOp.outcome = "called"
    \/ lastOp.op = "fetchArticlesFromSource" /\ lastOp.outcome = "notConfigured"
    \/ lastOp.op = "fetchReturn" /\ lastOp.outcome = "failed"

\* C2 as claimed: after every operation the snapshot and the list are the same
\* (read here as: the same up to an isSummarizing that is missing or false) and
\* so are the settings.
C2_AsClaimed ==
    StoreOpRan => AgreeButFlag /\ AgreeOnFlag /\ SettingsAgree

\* C2: in every state the settings in the store are the settings in memory and
\* the snapshot holds the articles of the list, in order, with the same id,
\* title, content, source and summary; after every operation that calls
\* saveState the snapshot is the serialization of the list.  (The start of a
\* summarization sets isSummarizing without calling saveState.)
C2_PersistedFollowsSaves ==
    /\ SettingsAgree
    /\ AgreeButFlag
    /\ lastOp.saves > 0 => localStorage.articles = Some(Stringify(articles))

\* C2 happens: a summarization has started and its flag is in the list alone.
C2_Witness ==
    /\ lastOp.op = "handleSummarize"
    /\ lastOp.outcome = "called"
    /\ articles[lastOp.at].isSummarizing = Some(TRUE)
    /\ ~PersistedTrue(lastOp.at)
    /\ backendSettings # Null

\* C3 as claimed: no article of the snapshot has isSummarizing true.
C3_AsClaimed ==
    \A i \in 1..Len(Persisted) : ~PersistedTrue(i)

\* C3: a snapshot that saveState has just written has isSummarizing true for
\* exactly the articles whose call is outstanding, and after loadState every
\* article of the list has isSummarizing false.
C3_PersistedFlagOnlyWhileOutstanding ==
    /\ lastOp.saves > 0 =>
          \A i \in 1..Len(articles) : PersistedTrue(i) <=> articles[i].calls > 0
    /\ lastOp.op = "main" =>
          \A i \in 1..Len(articles) : articles[i].isSummarizing = Some(FALSE)

\* C3 happens: an add, a remove or a settings save wrote the snapshot while a
\* call was outstanding.
C3_Witness ==
    /\ lastOp.op \in {"addTextForm", "removeArticle", "saveSettings"}
    /\ lastOp.saves > 0
    /\ \E i \in 1..Len(articles) : PersistedTrue(i) /\ articles[i].calls > 0

\* The articles of a stored snapshot as loadState would read them, with
\* isSummarizing as it was stored (missing read as false).
Snapshot(store) ==
    LET stored == IF store.articles = Null THEN <<>> ELSE store.articles[1]
    IN [i \in 1..Len(stored) |->
           [ParseArticle(stored[i]) EXCEPT
               !.isSummarizing = "isSummarizing" \in DOMAIN stored[i]
                                    /\ stored[i].isSummarizing = TRUE]]

\* C8 as claimed: removeArticle with an id that no article has leaves the list
\* as it is, calls saveState, and the snapshot it writes holds the articles
\* that were stored before, each with the fields it had (an isSummarizing that
\* is missing counted as false).
C8_AsClaimed ==
    [][removeArticle(NoSuchId)
          => /\ articles' = articles
             /\ lastOp'.saves = 1
             /\ Snapshot(localStorage') = Snapshot(localStorage)]_vars

\* C8: removeArticle with an id that no article has leaves the list as it is,
\* calls saveState, and the snapshot it writes is the serialization of the
\* list: the one that was stored before if that was the serialization of the
\* list.
C8_RemoveAbsentRewrites ==
    [][removeArticle(NoSuchId)
          => /\ articles' = articles
             /\ orphans' = orphans
             /\ lastOp'.saves = 1
             /\ localStorage'.articles = Some(Stringify(articles))
             /\ localStorage.articles = Some(Stringify(articles))
                   => localStorage' = localStorage]_vars

\* C8 happens: a removeArticle found no article with the id, in a list that holds one.
C8_Witness ==
    /\ lastOp.op = "removeArticle"
    /\ lastOp.outcome = "absent"
    /\ Len(articles) >= 1
    /\ localStorage.articles = Some(Stringify(articles))

\* The backend settings are unset: null, or with an empty url or an empty key.
SettingsUnset ==
    \/ backendSettings = Null
    \/ backendSettings[1].url = <<>>
    \/ backendSettings[1].key = <<>>

\* C9: a submit of the URL form while the backend settings are unset starts no
\* call of the fetch service and leaves the list, the store and the settings
\* as they are; with a valid URL it tells the user and opens the settings
\* modal; and the settings stop being unset only by a saveSettings that
\* provides both a url and a key.
C9_UnsetSettingsBlockIngestion ==
    [][/\ \A u \in SourceInputs :
             (addUrlFormSubmit(u) /\ SettingsUnset)
                => /\ inflight' = inflight
                   /\ lastOp'.calls = 0
                   /\ UNCHANGED <<articles, localStorage, backendSettings>>
                   /\ IsValidURL(Trim(u))
                         => /\ settingsModalOpen'
                            /\ lastOp'.outcome = "notConfigured"
                            /\ lastOp'.alerts = <<AlertNotConfigured>>
       /\ (SettingsUnset /\ ~SettingsUnset')
             => /\ lastOp'.op = "saveSettings"
                /\ backendSettings'[1].url # <<>>
                /\ backendSettings'[1].key # <<>>]_vars

\* C9 happens: a URL was submitted while the saved settings had an empty key,
\* no call was started and the settings modal is open.
C9_Witness ==
    /\ lastOp.op = "fetchArticlesFromSource"
    /\ lastOp.outcome = "notConfigured"
    /\ backendSettings # Null
    /\ backendSettings[1].url # <<>>
    /\ backendSettings[1].key = <<>>
    /\ settingsModalOpen
    /\ inflight = <<>>

\* The call of the fetch service failed: the request was rejected, the status
\* was not a success or the body could not be parsed.
FetchFailed(resp) ==
    resp.net = "rejected" \/ ~resp.ok \/ resp.body = "unparsable"

\* C10: when a call of the fetch service fails, its return leaves the list,
\* the store and the settings as they are, writes nothing, tells the user once
\* and re-enables the fetch button.
C10_FailedFetchLeavesState ==
    [][\A k \in 1..Len(inflight), resp \in Responses :
          (fetchReturn(k, resp) /\ FetchFailed(resp))
             => /\ UNCHANGED <<articles, localStorage, backendSettings>>
                /\ addUrlBtnDisabled' = FALSE
                /\ lastOp'.outcome = "failed"
                /\ lastOp'.saves = 0
                /\ Len(lastOp'.alerts) = 1]_vars

\* C10 happens: a call has failed with an article in the list and in the
\* store, and the fetch button is enabled.
C10_Witness ==
    /\ lastOp.op = "fetchReturn"
    /\ lastOp.outcome = "failed"
    /\ Len(articles) >= 1
    /\ localStorage.articles = Some(Stringify(articles))
    /\ ~addUrlBtnDisabled


\* The string is rejected by new URL(...) after trimming: it is empty or does
\* not start with a scheme and host.
NotAUrl(s) ==
    Trim(s) = <<>> \/ Trim(s)[1] # "h"

\* The title or the content is empty after trimming.
TextMissing(t, c) ==
    Trim(t) = <<>> \/ Trim(c) = <<>>

\* The step rejects its input: no fetch-service call is started and the list,
\* the store and the settings stay as they are.
RejectedWithoutChange ==
    /\ inflight' = inflight
    /\ lastOp'.calls = 0
    /\ lastOp'.saves = 0
    /\ UNCHANGED <<articles, localStorage, backendSettings>>

\* C11 as claimed: a URL form submit with a string that is not a valid URL and
\* a text form submit with an empty title or content start no call, change
\* nothing and show a notification.
C11_AsClaimed ==
    [][/\ \A u \in SourceInputs :
             (addUrlFormSubmit(u) /\ NotAUrl(u))
                => RejectedWithoutChange /\ Len(lastOp'.alerts) >= 1
       /\ \A t \in TitleInputs, c \in ContentInputs :
             (addTextFormSubmit(t, c) /\ TextMissing(t, c))
                => RejectedWithoutChange /\ Len(lastOp'.alerts) >= 1]_vars

\* C11: a URL form submit with a string that is not a valid URL starts no call
\* and changes nothing; it shows the invalid-URL alert when the string is not
\* empty after trimming and shows nothing when it is.  A text form submit with
\* an empty title or content adds no article, changes nothing and shows the
\* alert that both are needed.
C11_InvalidInputRejected ==
    [][/\ \A u \in SourceInputs :
             (addUrlFormSubmit(u) /\ NotAUrl(u))
                => /\ RejectedWithoutChange
                   /\ lastOp'.alerts = IF Trim(u) = <<>> THEN <<>> ELSE <<AlertInvalidUrl>>
       /\ \A t \in TitleInputs, c \in ContentInputs :
             (addTextFormSubmit(t, c) /\ TextMissing(t, c))
                => /\ RejectedWithoutChange
                   /\ lastOp'.alerts = <<AlertTextMissing>>]_vars

\* C11 happens: with the backend configured and an article in the list, a URL
\* form submit of a string that is not a URL was rejected with the alert.
C11_Witness ==
    /\ lastOp.op = "addUrlForm"
    /\ lastOp.outcome = "invalid"
    /\ lastOp.alerts = <<AlertInvalidUrl>>
    /\ ~NotConfigured(backendSettings)
    /\ Len(articles) >= 1


\* The sources of the articles of a sequence, in order.
SourcesOf(arts) == [i \in 1..Len(arts) |-> arts[i].source]

\* C12: an add puts what it adds at the front of the list and keeps the
\* articles that were there, in their order, behind it.  The text form adds one
\* article with the trimmed title and content, source "Pasted Text" and id
\* text-<Date.now()>, so from an empty store the list has length 1; the
\* single-article fetch adds one article whose source is the submitted URL; the
\* multi-article fetch adds the incoming articles whose source the list does
\* not have, in their incoming order, with ids art-<Date.now()>-<index>.
C12_NewestFirst ==
    [][/\ \A t \in TitleInputs, c \in ContentInputs :
             (addTextFormSubmit(t, c) /\ ~TextMissing(t, c))
                => /\ Len(articles') = Len(articles) + 1
                   /\ Tail(articles') = articles
                   /\ articles'[1].id = <<"text", now, -1>>
                   /\ articles'[1].source = <<"Pasted Text">>
                   /\ articles'[1].title = Trim(t)
                   /\ articles'[1].content = Trim(c)
                   /\ articles = <<>> => Len(articles') = 1
       /\ \A k \in 1..Len(inflight), resp \in Responses :
             (fetchReturn(k, resp) /\ FetchError(resp) = <<>>)
                => LET n == Len(articles') - Len(articles)
                       olds == {articles[i].source : i \in 1..Len(articles)}
                       fresh == SelectSeq(resp.data, LAMBDA d : d.source \notin olds)
                   IN /\ n >= 0
                      /\ SubSeq(articles', n + 1, Len(articles')) = articles
                      /\ variant = "single"
                            => /\ n = 1
                               /\ articles'[1].source = inflight[k].url
                               /\ articles'[1].id = <<"url", now, -1>>
                      /\ variant = "multi"
                            => /\ n = Len(fresh)
                               /\ SourcesOf(SubSeq(articles', 1, n)) = SourcesOf(fresh)
                               /\ \A i \in 1..n : articles'[i].id[1] = "art"
                                                  /\ articles'[i].id[2] = now]_vars

\* C12 happens: from an empty store a pasted text was added, and a later one
\* was put in front of it.
C12_Witness ==
    /\ lastOp.op = "addTextForm"
    /\ lastOp.outcome = "added"
    /\ Len(articles) = 2
    /\ articles[1].id = <<"text", 1, -1>>
    /\ articles[2].id = <<"text", 0, -1>>
    /\ articles[1].source = <<"Pasted Text">>


\* No two elements of the sequence have the same id.
UniqueIds(arts) ==
    \A i, j \in 1..Len(arts) : arts[i].id = arts[j].id => i = j

\* No article of the list or of the snapshot got its id in the current millisecond.
NoIdOfNow ==
    /\ \A i \in 1..Len(articles) : articles[i].id[2] # now
    /\ \A i \in 1..Len(Persisted) : Persisted[i].id[2] # now

\* C13 as claimed: as long as no two form submits have happened in the same
\* millisecond, no two articles of the list have the same id.
C13_AsClaimed ==
    submitted # 2 => UniqueIds(articles)

\* C13: the ids of the list and of the snapshot stay unique over every step in
\* which no id is generated in a millisecond that an id of the list or of the
\* snapshot was generated in.  (The id of a pasted text is generated when the
\* form is submitted, the id of a fetched article when its response is handled.)
C13_UniqueIdsPerMillisecond ==
    [][(UniqueIds(articles) /\ UniqueIds(Persisted) /\ NoIdOfNow)
          => (UniqueIds(articles') /\ UniqueIds(Persisted'))]_vars

\* C13 happens: two fetched articles of one response and of one millisecond are
\* in the list with different ids, and no two submits shared a millisecond.
C13_Witness ==
    /\ submitted # 2
    /\ lastOp.op = "fetchReturn"
    /\ lastOp.outcome = "added"
    /\ Len(articles) = 2
    /\ articles[1].id = <<"art", 1, 0>>
    /\ articles[2].id = <<"art", 1, 1>>


\* C14: when the call of the i-th article returns, that article gets the
\* result of that call (its text trimmed, or its summary left as it was on a
\* failure) and isSummarizing false, and every other article, with its summary,
\* its flag and its outstanding call, is as it was; the return of a call whose
\* article has left the list changes no article.  Calls of two articles can be
\* outstanding together, and either can return first.
C14_IndependentSummarizations ==
    [][\A i \in 0..Len(articles), result \in Results :
          summarizeReturn(i, result)
             => /\ Len(articles') = Len(articles)
                /\ \A j \in 1..Len(articles) : j # i => articles'[j] = articles[j]
                /\ i # 0 =>
                      /\ articles'[i].isSummarizing = Some(FALSE)
                      /\ articles'[i].calls = articles[i].calls - 1
                      /\ articles'[i].summary =
                            IF result = Undefined THEN articles[i].summary
                            ELSE Some(Trim(result[1]))]_vars

\* C14 happens: the calls of two articles were outstanding together, the one
\* of the second article failed first and left it without a summary, and the
\* first article is still summarizing.
C14_Witness ==
    /\ lastOp.op = "summarizeReturn"
    /\ lastOp.outcome = "failure"
    /\ lastOp.at = 2
    /\ Len(articles) = 2
    /\ articles[2].summary = Undefined
    /\ articles[2].isSummarizing = Some(FALSE)
    /\ articles[1].calls = 1
    /\ articles[1].isSummarizing = Some(TRUE)
    /\ articles[1].summary = Undefined


\* C15: after the call of an article has failed, the guard of handleSummarize
\* does not reject the id of that article (the id being that of no article in
\* front of it); a handleSummarize that the guard does not reject issues one
\* call and sets isSummarizing; and when the call of an article without a
\* summary returns a text, the article has that text, trimmed, as its summary.
C15_RetryAfterFailure ==
    /\ []((/\ lastOp.op = "summarizeReturn"
           /\ lastOp.outcome = "failure"
           /\ lastOp.at # 0
           /\ Find(articles, articles[lastOp.at].id) = lastOp.at)
             => ~SummarizeReturnsEarly(articles, articles[lastOp.at].id))
    /\ [][/\ \A id \in IdsOf(articles) :
                (handleSummarize(id) /\ articles[Find(articles, id)].isSummarizing # Some(TRUE))
                   => /\ lastOp'.outcome = "called"
                      /\ lastOp'.calls = 1
                      /\ articles'[Find(articles, id)].calls = 1
                      /\ articles'[Find(articles, id)].isSummarizing = Some(TRUE)
          /\ \A i \in 1..Len(articles), result \in Results :
                (summarizeReturn(i, result) /\ result # Undefined)
                   => articles'[i].summary = Some(Trim(result[1]))]_vars

\* C15 happens: the first call of the article failed (the store has it with
\* isSummarizing false and without a summary), and a second call has been issued.
C15_Witness ==
    /\ lastOp.op = "handleSummarize"
    /\ lastOp.outcome = "called"
    /\ articles[lastOp.at].calls = 1
    /\ articles[lastOp.at].summary = Undefined
    /\ "isSummarizing" \in DOMAIN Persisted[lastOp.at]
    /\ Persisted[lastOp.at].isSummarizing = FALSE
    /\ "summary" \notin DOMAIN Persisted[lastOp.at]


\* What saveSettings does to the settings: the settings in memory are the
\* trimmed url and key of this submit, and the settings in the store are their
\* serialization.
SettingsReplaced(u, k) ==
    /\ backendSettings' = Some([url |-> Trim(u), key |-> Trim(k)])
    /\ localStorage'.settings = Some(StringifySettings([url |-> Trim(u), key |-> Trim(k)]))
    /\ ParseSettings(localStorage'.settings[1]) = [url |-> Trim(u), key |-> Trim(k)]

\* C16 as claimed: saveSettings replaces the settings in memory and in the
\* store by the trimmed url and key of the submit, and changes neither the
\* list nor the articles of its snapshot (an isSummarizing that is missing
\* counted as false).
C16_AsClaimed ==
    [][\A u \in BackendUrlInputs, k \in BackendKeyInputs :
          saveSettings(u, k)
             => /\ SettingsReplaced(u, k)
                /\ articles' = articles
                /\ Snapshot(localStorage') = Snapshot(localStorage)]_vars

\* C16: saveSettings replaces the settings in memory and in the store by the
\* trimmed url and key of the submit and leaves the list as it is; it calls
\* saveState, so the snapshot it leaves is the serialization of the list, which
\* is the snapshot that was stored if that was the serialization of the list.
C16_SaveOverwritesSettings ==
    [][\A u \in BackendUrlInputs, k \in BackendKeyInputs :
          saveSettings(u, k)
             => /\ SettingsReplaced(u, k)
                /\ articles' = articles
                /\ lastOp'.saves = 1
                /\ localStorage'.articles = Some(Stringify(articles))
                /\ localStorage.articles = Some(Stringify(articles))
                      => localStorage'.articles = localStorage.articles]_vars

\* C16 happens: settings with a url and a key were saved while the call of an
\* article was outstanding, and the snapshot has that article as summarizing.
C16_Witness ==
    /\ lastOp.op = "saveSettings"
    /\ backendSettings = Some([url |-> <<"h">>, key |-> <<"k">>])
    /\ localStorage.settings = Some(StringifySettings([url |-> <<"h">>, key |-> <<"k">>]))
    /\ Len(articles) >= 1
    /\ articles[1].calls = 1
    /\ PersistedTrue(1)


\* The page was just loaded.
JustLoaded == lastOp.op = "main"

\* C17 as claimed: a load that finds no settings leads to the settings modal
\* being open (unless the user has the page loaded again on saved settings
\* first), and after every load whose settings would block a URL ingestion as
\* not configured the timer of the prompt is set.
C17_AsClaimed ==
    /\ (JustLoaded /\ backendSettings = Null)
          ~> (settingsModalOpen \/ (JustLoaded /\ backendSettings # Null))
    /\ [](JustLoaded /\ SettingsUnset => promptTimer)

\* C17: after a load the timer of the prompt is set exactly when the load
\* found no settings at all: settings with an empty url or an empty key block a
\* URL ingestion but set no timer.  A timer that is set leads to its callback
\* having opened the settings modal, unless the page is loaded again first.
C17_PromptOnlyWhenAbsent ==
    /\ [](JustLoaded => (promptTimer <=> backendSettings = Null))
    /\ [][promptTimerFires => settingsModalOpen']_vars
    /\ promptTimer ~> (settingsModalOpen \/ (JustLoaded /\ ~promptTimer))

\* C17 happens: the page was loaded on settings with an empty key, which block
\* an ingestion, and no timer is set.
C17_Witness ==
    /\ JustLoaded
    /\ backendSettings # Null
    /\ backendSettings[1].url # <<>>
    /\ backendSettings[1].key = <<>>
    /\ ~promptTimer
    /\ ~settingsModalOpen


\* The step is one of a summarization round trip: a handleSummarize or the
\* return of a generateContent call.
SummarizeStep ==
    \/ \E id \in IdsOf(articles) \cup {NoSuchId} : handleSummarize(id)
    \/ \E i \in 0..Len(articles), result \in Results : summarizeReturn(i, result)

\* The list after the step is the list before it, every article with every
\* field as it was, behind the articles that the step added, or without the
\* articles of the id that the step removed.
KeptAsTheyWere ==
    \/ \E n \in 0..Len(articles') : SubSeq(articles', n + 1, Len(articles')) = articles
    \/ \E id \in IdsOf(articles) : articles' = SelectSeq(articles, LAMBDA a : a.id # id)

\* The step keeps the list's articles and their order, and the id, title,
\* content and source of each.
SameListButSummaries ==
    /\ Len(articles') = Len(articles)
    /\ \A j \in 1..Len(articles) :
          \A f \in {"id", "title", "content", "source"} : articles'[j][f] = articles[j][f]

\* C18: an add, a remove, a settings save, a URL submit and the return of a
\* fetch-service call leave every article that stays in the list with every
\* field, summary and isSummarizing included, as it was; the steps of a
\* summarization round trip change neither the articles of the list, their
\* order, nor the id, title, content or source of any.  The one other step
\* that touches the list is the load of the page, which takes the fields as
\* they are stored and sets isSummarizing to false.
C18_SummaryFieldsFrame ==
    [][/\ KeptAsTheyWere \/ SummarizeStep \/ main
       /\ articles' = articles \/ ~SummarizeStep \/ SameListButSummaries
       /\ articles' = articles
          \/ ~main
          \/ /\ Len(articles') = Len(Persisted)
             /\ \A j \in 1..Len(Persisted) :
                   /\ articles'[j].isSummarizing = Some(FALSE)
                   /\ \A f \in {"id", "title", "content", "source"} :
                         articles'[j][f] = Persisted[j][f]
                   /\ articles'[j].summary =
                         IF "summary" \in DOMAIN Persisted[j]
                         THEN Some(Persisted[j].summary) ELSE Undefined]_vars

\* C18 happens: an article was added in front of one whose call is
\* outstanding, and that one is still summarizing, as it was.
C18_Witness ==
    /\ lastOp.op = "addTextForm"
    /\ lastOp.outcome = "added"
    /\ Len(articles) = 2
    /\ articles[2].calls = 1
    /\ articles[2].isSummarizing = Some(TRUE)

\* The responses of the fetch service with a non-success status.
NonSuccess == {resp \in Responses : resp.net = "resolved" /\ ~resp.ok}

\* The step is the return of an outstanding fetch-service call with resp.
ReturnsWith(resp) == \E k \in 1..Len(inflight) : fetchReturn(k, resp)

\* errorData.error || `Failed to fetch with status: ${response.status}` for
\* a body that response.json() parsed.
MessageOf(resp) ==
    IF resp.body = "errorObject" THEN "error of the server"
    ELSE "Failed to fetch with status"

\* C19 as stated: whatever the body of a non-success response is, the message
\* shown is the server's error when the body has one and the message built
\* from the status otherwise.
C19_AsClaimed ==
    [][\A resp \in NonSuccess :
          ReturnsWith(resp) => lastOp'.alerts = <<AlertCouldNotFetch(MessageOf(resp))>>]_vars

\* C19: on a non-success response whose body is JSON, the message shown is the
\* server's error when the body has one and the message built from the status
\* otherwise; on one whose body is not JSON, response.json() throws before the
\* message is built, and the message shown is that of the parse error.  In
\* each case the list and the stored snapshot are left as they were.
C19_NonSuccessMessage ==
    [][\A resp \in NonSuccess :
          ReturnsWith(resp) =>
             /\ lastOp'.alerts =
                   <<AlertCouldNotFetch(IF resp.body = "unparsable" THEN "SyntaxError"
                                        ELSE MessageOf(resp))>>
             /\ UNCHANGED <<articles, localStorage>>]_vars

\* C19 happens: a non-success response without an error property came back,
\* and the message built from the status was shown.
C19_Witness ==
    /\ lastOp.op = "fetchReturn"
    /\ lastOp.outcome = "failed"
    /\ lastOp.alerts = <<AlertCouldNotFetch("Failed to fetch with status")>>

\* The step sends a request to the fetch service.
Sent == Len(inflight') = Len(inflight) + 1

\* The URL form was submitted with this text, and the request sent is a GET
\* with the text, trimmed, as its url parameter and the configured key behind
\* "Bearer " as its Authorization header.
SentFor(u) ==
    /\ addUrlFormSubmit(u)
    /\ inflight'[Len(inflight')].method = "GET"
    /\ inflight'[Len(inflight')].url = Trim(u)
    /\ inflight'[Len(inflight')].authorization = <<"Bearer ">> \o backendSettings[1].key

\* C20 as stated: the address of the request is the configured backend URL
\* followed by the path suffix, whatever the configured URL is.
C20_AsClaimed ==
    [][Sent =>
          /\ \E u \in SourceInputs : SentFor(u)
          /\ inflight'[Len(inflight')].address = backendSettings[1].url \o <<PathSuffix>>]_vars

\* C20: the request sent for a URL ingestion is a GET with the user's URL as
\* the parameter url and the header Authorization: Bearer <key>; its address
\* is the scheme and host of the configured backend URL followed by the path
\* suffix of the variant, which is the configured URL followed by the suffix
\* exactly when the configured URL has no path of its own: a path that it has
\* is replaced by the suffix.
C20_RequestAddress ==
    [][Sent =>
          /\ \E u \in SourceInputs : SentFor(u)
          /\ inflight'[Len(inflight')].address = <<Head(backendSettings[1].url), PathSuffix>>
          /\ (inflight'[Len(inflight')].address = backendSettings[1].url \o <<PathSuffix>>)
                <=> (Len(backendSettings[1].url) = 1)]_vars

\* C20 happens: a request was sent while the configured backend URL has a
\* path, and its address is the host followed by the suffix.
C20_Witness ==
    /\ lastOp.op = "fetchArticlesFromSource"
    /\ lastOp.outcome = "called"
    /\ Len(inflight) = 1
    /\ backendSettings # Null
    /\ backendSettings[1].url = <<"h", "/p">>
    /\ inflight[1].address = <<"h", PathSuffix>>

\* C21: removing an id takes every article of that id out of the list and out
\* of the snapshot that the removal writes, and the calls outstanding for them
\* stay outstanding, held by objects that are in the list no more.  When such a
\* call returns, with a text or with an error, the list is as it was, every
\* article with its summary and its flag, so nothing is inserted and no
\* article gets the text; the snapshot that the handler writes is that list;
\* and the handler ends as it does for an article of the list: no alert on a
\* text, the one failure alert on an error, and one save.
C21_RemovedWhileSummarizing ==
    [][/\ \A id \in IdsOf(articles) :
             removeArticle(id)
                => /\ id \notin IdsOf(articles')
                   /\ id \notin {Persisted'[j].id : j \in 1..Len(Persisted')}
                   /\ orphans' + CallsOf(articles') = orphans + CallsOf(articles)
       /\ \A result \in Results :
             summarizeReturn(0, result)
                => /\ articles' = articles
                   /\ Persisted' = Stringify(articles)
                   /\ orphans' = orphans - 1
                   /\ lastOp'.saves = 1
                   /\ lastOp'.alerts =
                         IF result = Undefined THEN <<AlertSummarize>> ELSE <<>>]_vars

\* C21 happens: the call of a removed article returned with a text, and the
\* article that is in the list has no summary and is not in the snapshot with
\* one.
C21_Witness ==
    /\ lastOp.op = "summarizeReturn"
    /\ lastOp.outcome = "success"
    /\ lastOp.at = 0
    /\ Len(articles) = 1
    /\ articles[1].summary = Undefined
    /\ Len(Persisted) = 1
    /\ "summary" \notin DOMAIN Persisted[1]

\* No two elements of the sequence have the same source.
UniqueSources(arts) ==
    \A i, j \in 1..Len(arts) : arts[i].source = arts[j].source => i = j

\* C22 as stated: a list without two articles of one source is still such a
\* list after addArticles, whatever the batch.
C22_AsClaimed ==
    [][\A k \in 1..Len(inflight), resp \in Responses :
          (/\ variant = "multi"
           /\ FetchError(resp) = <<>>
           /\ UniqueSources(articles)
           /\ fetchReturn(k, resp))
             => UniqueSources(articles')]_vars

\* C22: addArticles compares the incoming articles with the articles of the
\* list, not with each other.  On a list without two articles of one source,
\* no article that it adds has the source of an article that was there, and
\* the list is without two articles of one source afterwards exactly when the
\* incoming articles that pass the filter have pairwise different sources:
\* two incoming articles with one source, which no article of the list has,
\* are both added.
C22_SourcesUniqueUnlessBatchRepeats ==
    [][\A k \in 1..Len(inflight), resp \in Responses :
          (/\ variant = "multi"
           /\ FetchError(resp) = <<>>
           /\ UniqueSources(articles)
           /\ fetchReturn(k, resp))
             => LET olds == {articles[i].source : i \in 1..Len(articles)}
                    fresh == SelectSeq(resp.data, LAMBDA d : d.source \notin olds)
                    n == Len(articles') - Len(articles)
                IN /\ n = Len(fresh)
                   /\ \A i \in 1..n : articles'[i].source \notin olds
                   /\ UniqueSources(articles') <=> UniqueSources(fresh)]_vars

\* C22 happens: a batch of two articles with one source came in, on a list in
\* which no article had that source, and both are in the list.
C22_Witness ==
    /\ variant = "multi"
    /\ lastOp.op = "fetchReturn"
    /\ lastOp.outcome = "added"
    /\ lastOp.incoming = 2
    /\ Len(articles) = 2
    /\ articles[1].source = articles[2].source
    /\ articles[1].id # articles[2].id

\* The articles of a list whose generateContent call is outstanding, in order.
Outstanding(arts) == SelectSeq(arts, LAMBDA a : a.calls > 0)

\* C23: after loadState every article of the list has isSummarizing false and
\* no call, whatever the snapshot held, and the guard of handleSummarize lets
\* its id pass (the id being that of no article in front of it).  Within one
\* page, an article has isSummarizing true exactly while its call is
\* outstanding, and the guard rejects its id for as long; an article whose call
\* is outstanding stays so, with its flag, through every step but the return
\* of its own call, its removal and the next load: a rejected or an accepted
\* handleSummarize, the return of another article's call, the removal of
\* another id, an add and a tick of the clock leave it as it is.
C23_FlagUntilOwnReturnOrLoad ==
    /\ [](JustLoaded =>
             \A i \in 1..Len(articles) :
                /\ articles[i].isSummarizing = Some(FALSE)
                /\ articles[i].calls = 0
                /\ Find(articles, articles[i].id) = i
                      => ~SummarizeReturnsEarly(articles, articles[i].id))
    /\ [](\A i \in 1..Len(articles) :
             /\ articles[i].isSummarizing = Some(TRUE) <=> articles[i].calls > 0
             /\ articles[i].calls <= 1
             /\ (articles[i].calls > 0 /\ Find(articles, articles[i].id) = i)
                   => SummarizeReturnsEarly(articles, articles[i].id))
    /\ [][\/ Outstanding(articles') = Outstanding(articles)
          \/ main
          \/ \E i \in 1..Len(articles), result \in Results :
                /\ summarizeReturn(i, result)
                /\ Outstanding(articles') = Outstanding([articles EXCEPT ![i].calls = 0])
          \/ \E id \in IdsOf(articles) :
                /\ removeArticle(id)
                /\ Outstanding(articles') =
                      SelectSeq(Outstanding(articles), LAMBDA a : a.id # id)
          \/ \E id \in IdsOf(articles) :
                /\ handleSummarize(id)
                /\ articles[Find(articles, id)].calls = 0
                /\ \A i \in 1..Len(articles) : articles[i].calls > 0 => articles'[i] = articles[i]]_vars

\* C23 happens: the page was loaded on a snapshot that has the first article
\* with isSummarizing true, the article of the list has it false, and the
\* guard lets its id pass.
C23_Witness ==
    /\ JustLoaded
    /\ Len(articles) >= 1
    /\ PersistedTrue(1)
    /\ articles[1].isSummarizing = Some(FALSE)
    /\ ~SummarizeReturnsEarly(articles, articles[1].id)

====
